---- MODULE Spec2Model ----
(***************************************************************************)
(* User service (user-service/server/server.go) and its HTTP gateway.      *)
(* The store is a map guarded by a sync.RWMutex; CreateUser, GetUser and   *)
(* ListUsers run on independently scheduled goroutines.                    *)
(***************************************************************************)
EXTENDS Integers, Sequences, FiniteSets, TLC

\* ---------------------------------------------------------------- bounds
NumProcs == 3       \* goroutines serving calls at the same time
MaxCalls == 3       \* calls started in one run
NumIds   == 2       \* identifiers uuid.New can hand out in one run
MaxLimit == 1       \* largest limit a direct ListUsers caller passes

MaxHttp  == 2       \* goroutines serving HTTP requests at the same time
MaxHttpCalls == 2   \* HTTP requests received in one run

MaxStored   == 11   \* records in the store when a run over a filled store begins
MaxShuffled == 3    \* largest map whose range is taken in every possible order

Procs == 1..NumProcs
HttpProcs == 1..MaxHttp
None  == 0

\* ---------------------------------------------------------------- data
\* uuid.New().String(): the n-th identifier as a string
UuidString(n) == <<"uuid", n>>
UnknownId     == <<"unknown-id">>
EmptyString   == <<>>

\* time.Time.Format(time.RFC3339) of a clock reading of t seconds
RFC3339(t) == <<"1970-01-01T00:00:", t \div 10, t % 10, "Z">>

\* messages of the service
MsgRequired == "Name and email are required"
MsgCreated  == "User created successfully"
\* errors, as the text err.Error() gives; nil has none
NoErr            == <<>>
ErrValidation    == <<"validation error">>
ErrNotFound(id)  == <<"user with id ", id, " not found">>
ErrSend          == <<"send failed">>

\* the requests a caller can make
CreateInputs == { [name |-> "Ann", email |-> "ann@x.com", age |-> 30],
                  [name |-> "",    email |-> "ann@x.com", age |-> 30],
                  [name |-> "Ann", email |-> "",          age |-> 30] }
GetInputs    == { UuidString(n) : n \in 1..NumIds } \cup { UnknownId }
ListInputs   == 0..MaxLimit

NoReq == [op |-> "none", name |-> "", email |-> "", age |-> 0,
          id |-> EmptyString, limit |-> 0]
CreateUserRequest(i) == [NoReq EXCEPT !.op = "create", !.name = i.name,
                                      !.email = i.email, !.age = i.age]
GetUserRequest(id)   == [NoReq EXCEPT !.op = "get", !.id = id]
ListUsersRequest(l)  == [NoReq EXCEPT !.op = "list", !.limit = l]

NoRes == [err |-> NoErr, resp |-> <<>>]
NoLast == [req |-> NoReq, res |-> NoRes, sent |-> <<>>, seen |-> 0]

\* HTTP requests and the status of a remote call as the client stub sees it
NoHttp == [route |-> "none", method |-> "", bodyOk |-> FALSE,
           name |-> "", email |-> "", age |-> 0, id |-> EmptyString]
NoStatus == [code |-> "OK", msg |-> NoErr]
NoOut == [hreq |-> NoHttp, status |-> 0, body |-> <<>>, err |-> NoStatus,
          got |-> 0]

VARIABLES
  users,    \* UserServer.users: identifier -> record
  mu,       \* UserServer.mu: w = writer that announced itself (or None),
            \*   locked = that writer has exclusive access, r = active readers
  issued,   \* identifiers uuid.New has generated
  pc,       \* position of each goroutine in its call
  req,      \* the request of each call
  user,     \* CreateUser's local `user` (<<>> before it is built)
  count,    \* ListUsers's local `count`
  sent,     \* messages ListUsers has sent on its stream
  res,      \* what the call returned, until the gateway's stub takes it
  last,     \* the call that returned last to a direct caller
  created,  \* history: the successful CreateUser calls, in order of return
  seen,     \* history: Len(created) when the call began
  ncalls,   \* calls started so far
  gw,       \* position of each gateway handler ("none": no HTTP request)
  hreq,     \* the HTTP request being handled
  out,      \* the HTTP response written last: request, status, body, the
            \*   err the handler had from the remote call, and (history)
            \*   the number of stream messages it had received
  gwUsers   \* ListUsersHandler's local `users`

gwVars == <<gw, hreq, out, gwUsers>>
vars == <<users, mu, issued, pc, req, user, count, sent, res, last,
          created, seen, ncalls, gwVars>>

\* ---------------------------------------------------------------- NewUserServer
Init ==
  /\ users = <<>>
  /\ mu = [w |-> None, locked |-> FALSE, r |-> {}]
  /\ issued = {}
  /\ pc = [p \in Procs |-> "idle"]
  /\ req = [p \in Procs |-> NoReq]
  /\ user = [p \in Procs |-> <<>>]
  /\ count = [p \in Procs |-> 0]
  /\ sent = [p \in Procs |-> <<>>]
  /\ res = [p \in Procs |-> NoRes]
  /\ last = NoLast
  /\ created = <<>>
  /\ seen = [p \in Procs |-> 0]
  /\ ncalls = 0
  /\ gw = [p \in Procs |-> "none"]
  /\ hreq = [p \in Procs |-> NoHttp]
  /\ out = NoOut
  /\ gwUsers = [p \in Procs |-> <<>>]

\* ---------------------------------------------------------------- sync.RWMutex
\* readers that called RLock while a writer had announced itself
BlockedReaders == { q \in Procs : pc[q] \in {"gWait", "lWait"} /\ q \notin mu.r }

\* Lock, first half: take the writer mutex and announce to readers
MuLockAnnounce(p) == [mu EXCEPT !.w = p]
\* Lock, second half: the active readers have left
MuLockAcquire(p)  == [mu EXCEPT !.locked = TRUE]
\* Unlock: release, admitting every reader that blocked meanwhile
MuUnlock(p)   == [w |-> None, locked |-> FALSE, r |-> BlockedReaders]
MuRLock(p)    == [mu EXCEPT !.r = @ \cup {p}]
MuRUnlock(p)  == [mu EXCEPT !.r = @ \ {p}]

\* ---------------------------------------------------------------- calls
\* variant: RLock admits a reader only when no other reader is inside
ReaderAdmittedAlone == mu.w = None /\ mu.r = {}

\* variant: RLock admits a reader whatever the writers do
ReaderAdmittedAlways == TRUE

\* RLock enters at once unless a writer has announced itself
ReaderAdmitted == mu.w = None

\* a call reaches its handler on a goroutine of its own and runs to its
\* first statement: CreateUser to s.mu.Lock(), GetUser and ListUsers through
\* s.mu.RLock(), which either enters or blocks
Enter(p, r) ==
  /\ IF r.op = "create"
       THEN /\ pc' = [pc EXCEPT ![p] = "cLock"]
            /\ mu' = mu
       ELSE IF ReaderAdmitted
         THEN /\ pc' = [pc EXCEPT ![p] = IF r.op = "get" THEN "gLookup" ELSE "lLoop"]
              /\ mu' = MuRLock(p)
         ELSE /\ pc' = [pc EXCEPT ![p] = IF r.op = "get" THEN "gWait" ELSE "lWait"]
              /\ mu' = mu
  /\ req' = [req EXCEPT ![p] = r]
  /\ user' = [user EXCEPT ![p] = <<>>]
  /\ count' = [count EXCEPT ![p] = 0]
  /\ sent' = [sent EXCEPT ![p] = <<>>]
  /\ res' = [res EXCEPT ![p] = NoRes]
  /\ seen' = [seen EXCEPT ![p] = Len(created)]

\* creates that have not drawn their identifier yet
PendingCreates == { q \in Procs : pc[q] \in {"cLock", "cWait", "cValidate"} }
IdsLeft == Cardinality(issued) + Cardinality(PendingCreates) < NumIds

Requests == { CreateUserRequest(i) : i \in CreateInputs }
            \cup { GetUserRequest(id) : id \in GetInputs }
            \cup { ListUsersRequest(l) : l \in ListInputs }

\* a caller invokes one of the three procedures directly
BeginCall(p) ==
  /\ pc[p] = "idle"
  /\ gw[p] = "none"
  /\ ncalls < MaxCalls
  /\ \E r \in Requests :
       /\ r.op = "create" => IdsLeft
       /\ Enter(p, r)
  /\ ncalls' = ncalls + 1
  /\ UNCHANGED <<users, issued, last, created, gwVars>>

\* the handler returns r: a direct caller takes the result and the goroutine
\* is gone; behind the gateway the result waits for the client stub, unless
\* the gateway has given up the call, and then it is dropped
Return(p, r) ==
  IF gw[p] = "none"
    THEN /\ last' = [req |-> req[p], res |-> r, sent |-> sent[p], seen |-> seen[p]]
         /\ pc' = [pc EXCEPT ![p] = "idle"]
         /\ req' = [req EXCEPT ![p] = NoReq]
         /\ user' = [user EXCEPT ![p] = <<>>]
         /\ count' = [count EXCEPT ![p] = 0]
         /\ sent' = [sent EXCEPT ![p] = <<>>]
         /\ seen' = [seen EXCEPT ![p] = 0]
         /\ res' = res
    ELSE IF gw[p] = "gone"
      THEN /\ pc' = [pc EXCEPT ![p] = "done"]
           /\ req' = [req EXCEPT ![p] = NoReq]
           /\ user' = [user EXCEPT ![p] = <<>>]
           /\ count' = [count EXCEPT ![p] = 0]
           /\ sent' = [sent EXCEPT ![p] = <<>>]
           /\ seen' = [seen EXCEPT ![p] = 0]
           /\ UNCHANGED <<res, last>>
      ELSE /\ res' = [res EXCEPT ![p] = r]
           /\ pc' = [pc EXCEPT ![p] = "done"]
           /\ UNCHANGED <<req, user, count, sent, seen, last>>

\* ---------------------------------------------------------------- CreateUser
\* s.mu.Lock(): take the writer mutex
CreateLock(p) ==
  /\ pc[p] = "cLock"
  /\ mu.w = None
  /\ mu' = MuLockAnnounce(p)
  /\ pc' = [pc EXCEPT ![p] = "cWait"]
  /\ UNCHANGED <<users, issued, req, user, count, sent, res,
                 last, created, seen, ncalls, gwVars>>

\* variant: Lock returns without waiting for the active readers
CreateAcquireEarly(p) ==
  /\ pc[p] = "cWait"
  /\ mu.w = p
  /\ mu' = MuLockAcquire(p)
  /\ pc' = [pc EXCEPT ![p] = "cValidate"]
  /\ UNCHANGED <<users, issued, req, user, count, sent, res,
                 last, created, seen, ncalls, gwVars>>

\* s.mu.Lock() returns once the active readers have left
CreateAcquire(p) ==
  /\ pc[p] = "cWait"
  /\ mu.w = p
  /\ mu.r = {}
  /\ mu' = MuLockAcquire(p)
  /\ pc' = [pc EXCEPT ![p] = "cValidate"]
  /\ UNCHANGED <<users, issued, req, user, count, sent, res,
                 last, created, seen, ncalls, gwVars>>

\* variant: only the name is checked
InvalidNameOnly(r) == r.name = ""

Invalid(r) == r.name = "" \/ r.email = ""

\* variant: the flagged response is returned with a nil error
CreateRejectSilent(p) ==
  /\ pc[p] = "cValidate"
  /\ Invalid(req[p])
  /\ Return(p, [err |-> NoErr,
                  resp |-> <<[User |-> <<>>, Message |-> MsgRequired,
                              Success |-> FALSE]>>])
  /\ mu' = MuUnlock(p)
  /\ UNCHANGED <<users, issued, created, ncalls, gwVars>>

\* variant: Unlock is not deferred, and the validation branch returns without it
CreateRejectLocked(p) ==
  /\ pc[p] = "cValidate"
  /\ Invalid(req[p])
  /\ Return(p, [err |-> ErrValidation,
                  resp |-> <<[User |-> <<>>, Message |-> MsgRequired,
                              Success |-> FALSE]>>])
  /\ mu' = mu
  /\ UNCHANGED <<users, issued, created, ncalls, gwVars>>

\* validation fails: return the flagged response and the error; deferred Unlock
CreateReject(p) ==
  /\ pc[p] = "cValidate"
  /\ Invalid(req[p])
  /\ Return(p, [err |-> ErrValidation,
                  resp |-> <<[User |-> <<>>, Message |-> MsgRequired,
                              Success |-> FALSE]>>])
  /\ mu' = MuUnlock(p)
  /\ UNCHANGED <<users, issued, created, ncalls, gwVars>>

\* variant: the age is not copied from the request
NewUserNoAge(n, r, t) == [Id |-> UuidString(n), Name |-> r.name,
                          Email |-> r.email, Age |-> 0, CreatedAt |-> RFC3339(t)]

NewUser(n, r, t) == [Id |-> UuidString(n), Name |-> r.name, Email |-> r.email,
                     Age |-> r.age, CreatedAt |-> RFC3339(t)]

\* time.Now(), in seconds: the clock advances as calls arrive
Now == ncalls

\* uuid.New(): an identifier never handed out before.  Identifiers are
\* opaque, so the one drawn is named by the order of the draws.
UuidNew == CHOOSE n \in (1..NumIds) \ issued : \A m \in (1..NumIds) \ issued : n <= m

\* variant: the identifier may be one that was handed out before
CreateBuildReusedId(p) ==
  /\ pc[p] = "cValidate"
  /\ ~Invalid(req[p])
  /\ \E n \in 1..NumIds :
       /\ user' = [user EXCEPT ![p] = <<NewUser(n, req[p], Now)>>]
       /\ issued' = issued \cup {n}
  /\ pc' = [pc EXCEPT ![p] = "cStore"]
  /\ UNCHANGED <<users, mu, req, count, sent, res, last, created, seen, ncalls, gwVars>>

\* validation passes: build the record with a fresh identifier and the time
CreateBuild(p) ==
  /\ pc[p] = "cValidate"
  /\ ~Invalid(req[p])
  /\ LET n == UuidNew IN
       /\ user' = [user EXCEPT ![p] = <<NewUser(n, req[p], Now)>>]
       /\ issued' = issued \cup {n}
  /\ pc' = [pc EXCEPT ![p] = "cStore"]
  /\ UNCHANGED <<users, mu, req, count, sent, res, last, created, seen, ncalls, gwVars>>

\* variant: the assignment replaces the map
PutReplacing(m, k, v) == [x \in {k} |-> v]

\* s.users[user.Id] = user
Put(m, k, v) == [x \in DOMAIN m \cup {k} |-> IF x = k THEN v ELSE m[x]]

CreateStore(p) ==
  /\ pc[p] = "cStore"
  /\ users' = Put(users, user[p][1].Id, user[p][1])
  /\ pc' = [pc EXCEPT ![p] = "cReturn"]
  /\ UNCHANGED <<mu, issued, req, user, count, sent, res,
                 last, created, seen, ncalls, gwVars>>

\* return the success response; deferred Unlock
CreateReturn(p) ==
  /\ pc[p] = "cReturn"
  /\ Return(p, [err |-> NoErr,
                  resp |-> <<[User |-> user[p], Message |-> MsgCreated,
                              Success |-> TRUE]>>])
  /\ created' = Append(created, [req |-> req[p], user |-> user[p][1]])
  /\ mu' = MuUnlock(p)
  /\ UNCHANGED <<users, issued, ncalls, gwVars>>

\* ---------------------------------------------------------------- GetUser
\* s.mu.RLock(), blocked: returns after the writer's Unlock admitted it
GetWake(p) ==
  /\ pc[p] = "gWait"
  /\ p \in mu.r
  /\ pc' = [pc EXCEPT ![p] = "gLookup"]
  /\ UNCHANGED <<users, mu, issued, req, user, count, sent, res,
                 last, created, seen, ncalls, gwVars>>

\* user, exists := s.users[req.Id]; exists: return the record; deferred RUnlock
GetFound(p) ==
  /\ pc[p] = "gLookup"
  /\ req[p].id \in DOMAIN users
  /\ Return(p, [err |-> NoErr, resp |-> <<[User |-> <<users[req[p].id]>>]>>])
  /\ mu' = MuRUnlock(p)
  /\ UNCHANGED <<users, issued, created, ncalls, gwVars>>

\* !exists: return nil and the error; deferred RUnlock
GetNotFound(p) ==
  /\ pc[p] = "gLookup"
  /\ req[p].id \notin DOMAIN users
  /\ Return(p, [err |-> ErrNotFound(req[p].id), resp |-> <<>>])
  /\ mu' = MuRUnlock(p)
  /\ UNCHANGED <<users, issued, created, ncalls, gwVars>>

\* ---------------------------------------------------------------- ListUsers
\* s.mu.RLock(), blocked: returns after the writer's Unlock admitted it
ListWake(p) ==
  /\ pc[p] = "lWait"
  /\ p \in mu.r
  /\ pc' = [pc EXCEPT ![p] = "lLoop"]
  /\ UNCHANGED <<users, mu, issued, req, user, count, sent, res,
                 last, created, seen, ncalls, gwVars>>

\* keys the range loop has already produced
Visited(p) == { sent[p][i].User.Id : i \in 1..Len(sent[p]) }
\* keys the range loop has not produced yet
Remaining(p) == DOMAIN users \ Visited(p)
\* keys the range loop can produce next.  The order of a range over a map is
\* unspecified: a map of up to MaxShuffled entries is ranged in every order,
\* a larger one from any first key on in the order of insertion, wrapping
\* around at the end
RangeNext(p) ==
  IF Cardinality(DOMAIN users) <= MaxShuffled \/ sent[p] = <<>>
    THEN Remaining(p)
    ELSE LET lastId == sent[p][Len(sent[p])].User.Id
             after  == { id \in Remaining(p) : id[2] > lastId[2] }
             pool   == IF after # {} THEN after ELSE Remaining(p)
         IN  { id \in pool : \A o \in pool : id[2] <= o[2] }
\* variant: the comparison is strict
LimitReachedLate(p) == req[p].limit > 0 /\ count[p] > req[p].limit

\* req.Limit > 0 && count >= req.Limit
LimitReached(p) == req[p].limit > 0 /\ count[p] >= req[p].limit

\* one iteration: stream.Send succeeds; count++
ListSend(p) ==
  /\ pc[p] = "lLoop"
  /\ ~LimitReached(p)
  /\ \E id \in RangeNext(p) :
       sent' = [sent EXCEPT ![p] = Append(@, [User |-> users[id]])]
  /\ count' = [count EXCEPT ![p] = @ + 1]
  /\ UNCHANGED <<users, mu, issued, pc, req, user, res,
                 last, created, seen, ncalls, gwVars>>

\* variant: the error of stream.Send is dropped and nil returned
ListSendFailSwallowed(p) ==
  /\ pc[p] = "lLoop"
  /\ ~LimitReached(p)
  /\ Remaining(p) # {}
  /\ Return(p, [err |-> NoErr, resp |-> <<>>])
  /\ mu' = MuRUnlock(p)
  /\ UNCHANGED <<users, issued, created, ncalls, gwVars>>

\* one iteration: stream.Send fails; return err; deferred RUnlock
ListSendFail(p) ==
  /\ pc[p] = "lLoop"
  /\ ~LimitReached(p)
  /\ Remaining(p) # {}
  /\ Return(p, [err |-> ErrSend, resp |-> <<>>])
  /\ mu' = MuRUnlock(p)
  /\ UNCHANGED <<users, issued, created, ncalls, gwVars>>

\* the range is exhausted or the limit breaks the loop: return nil; RUnlock
ListReturn(p) ==
  /\ pc[p] = "lLoop"
  /\ Remaining(p) = {} \/ LimitReached(p)
  /\ Return(p, [err |-> NoErr, resp |-> <<>>])
  /\ mu' = MuRUnlock(p)
  /\ UNCHANGED <<users, issued, created, ncalls, gwVars>>

\* ---------------------------------------------------------------- gateway
StatusOK                  == 200
StatusBadRequest          == 400
StatusNotFound            == 404
StatusMethodNotAllowed    == 405
StatusInternalServerError == 500
GatewayLimit              == 10

HttpRequests ==
  { [NoHttp EXCEPT !.route = "create", !.method = "POST", !.bodyOk = TRUE,
                   !.name = i.name, !.email = i.email, !.age = i.age]
      : i \in CreateInputs }
  \cup { [NoHttp EXCEPT !.route = "create", !.method = "POST"],
         [NoHttp EXCEPT !.route = "create", !.method = "GET"] }
  \cup { [NoHttp EXCEPT !.route = "get", !.method = "GET", !.id = id]
           : id \in GetInputs \cup {EmptyString} }
  \cup { [NoHttp EXCEPT !.route = "get", !.method = "POST", !.id = UnknownId] }
  \cup { [NoHttp EXCEPT !.route = "list", !.method = m] : m \in {"GET", "POST"} }

\* requests on the create route that have not been turned down or forwarded yet
PendingHttpCreates == { q \in Procs : gw[q] = "handle" /\ hreq[q].route = "create" }
HttpIdsLeft ==
  Cardinality(issued) + Cardinality(PendingCreates)
    + Cardinality(PendingHttpCreates) < NumIds

\* an HTTP request reaches its handler on a goroutine of its own
HttpRequest(p) ==
  /\ gw[p] = "none"
  /\ pc[p] = "idle"
  /\ ncalls < MaxHttpCalls
  /\ \E h \in HttpRequests :
       /\ h.route = "create" => HttpIdsLeft
       /\ hreq' = [hreq EXCEPT ![p] = h]
  /\ gw' = [gw EXCEPT ![p] = "handle"]
  /\ ncalls' = ncalls + 1
  /\ UNCHANGED <<users, mu, issued, pc, req, user, count, sent, res,
                 last, created, seen, out, gwUsers>>

\* the handler returns: its goroutine is gone; a remote call that has not
\* returned yet goes on in the service without a receiver
Leave(p) ==
  /\ hreq' = [hreq EXCEPT ![p] = NoHttp]
  /\ gwUsers' = [gwUsers EXCEPT ![p] = <<>>]
  /\ IF pc[p] \in {"idle", "done"}
       THEN /\ gw' = [gw EXCEPT ![p] = "none"]
            /\ pc' = [pc EXCEPT ![p] = "idle"]
            /\ req' = [req EXCEPT ![p] = NoReq]
            /\ user' = [user EXCEPT ![p] = <<>>]
            /\ count' = [count EXCEPT ![p] = 0]
            /\ sent' = [sent EXCEPT ![p] = <<>>]
            /\ res' = [res EXCEPT ![p] = NoRes]
            /\ seen' = [seen EXCEPT ![p] = 0]
       ELSE /\ gw' = [gw EXCEPT ![p] = "gone"]
            /\ UNCHANGED <<pc, req, user, count, sent, res, seen>>

\* http.Error(w, msg, code); return
HttpError(p, e, code) ==
  /\ out' = [hreq |-> hreq[p], status |-> code, body |-> <<"text", e.msg>>,
             err |-> e, got |-> Len(gwUsers[p])]
  /\ Leave(p)

\* w.Header().Set("Content-Type", "application/json"); json.NewEncoder(w).Encode(v)
HttpJSON(p, v) ==
  /\ out' = [hreq |-> hreq[p], status |-> StatusOK, body |-> <<"json", v>>,
             err |-> NoStatus, got |-> Len(gwUsers[p])]
  /\ Leave(p)

\* encoding/json of a slice: a nil slice, one nothing was appended to, is
\* written as null, any other as an array
JSONNull == <<"null">>
EncodeSlice(s) == IF s = <<>> THEN JSONNull ELSE <<"array", s>>

LocalErr(msg) == [code |-> "local", msg |-> <<msg>>]

\* the status the client stub reports for an error the handler returned
GrpcStatus(err) == [code |-> "Unknown", msg |-> err]
\* failures of the call itself: the transport, or the context's deadline
TransportErrs == { [code |-> "Unavailable", msg |-> <<"transport failure">>],
                   [code |-> "DeadlineExceeded", msg |-> <<"deadline exceeded">>] }
\* errors a unary call can return to the gateway at this moment
UnaryErrs(p) ==
  TransportErrs \cup
    (IF pc[p] = "done" /\ res[p].err # NoErr THEN {GrpcStatus(res[p].err)} ELSE {})
\* errors stream.Recv can return at this moment
RecvErrs(p) ==
  TransportErrs \cup
    (IF pc[p] = "done" /\ res[p].err # NoErr /\ Len(gwUsers[p]) = Len(sent[p])
       THEN {GrpcStatus(res[p].err)} ELSE {})

\* the remote call is issued; the request may or may not reach the service
Invoke(p, r) ==
  \/ Enter(p, r)
  \/ UNCHANGED <<pc, req, user, count, sent, res, seen, mu>>

\* ------------------------------------------------ CreateUserHandler
CreateHandlerReject(p) ==
  /\ gw[p] = "handle"
  /\ hreq[p].route = "create"
  /\ \/ /\ hreq[p].method # "POST"
        /\ HttpError(p, LocalErr("Method not allowed"), StatusMethodNotAllowed)
     \/ /\ hreq[p].method = "POST"
        /\ ~hreq[p].bodyOk
        /\ HttpError(p, LocalErr("invalid JSON"), StatusBadRequest)
  /\ UNCHANGED <<users, mu, issued, last, created, ncalls>>

CreateHandlerCall(p) ==
  /\ gw[p] = "handle"
  /\ hreq[p].route = "create"
  /\ hreq[p].method = "POST"
  /\ hreq[p].bodyOk
  /\ Invoke(p, CreateUserRequest(hreq[p]))
  /\ gw' = [gw EXCEPT ![p] = "await"]
  /\ UNCHANGED <<users, issued, last, created, ncalls, hreq, out, gwUsers>>

\* err != nil
CreateHandlerFail(p) ==
  /\ gw[p] = "await"
  /\ hreq[p].route = "create"
  /\ \E e \in UnaryErrs(p) : HttpError(p, e, StatusInternalServerError)
  /\ UNCHANGED <<users, mu, issued, last, created, ncalls>>

\* variant: the response is encoded without looking at err
CreateHandlerOKUnchecked(p) ==
  /\ gw[p] = "await"
  /\ hreq[p].route = "create"
  /\ pc[p] = "done"
  /\ HttpJSON(p, res[p].resp[1])
  /\ UNCHANGED <<users, mu, issued, last, created, ncalls>>

CreateHandlerOK(p) ==
  /\ gw[p] = "await"
  /\ hreq[p].route = "create"
  /\ pc[p] = "done"
  /\ res[p].err = NoErr
  /\ HttpJSON(p, res[p].resp[1])
  /\ UNCHANGED <<users, mu, issued, last, created, ncalls>>

\* ------------------------------------------------ GetUserHandler
GetHandlerReject(p) ==
  /\ gw[p] = "handle"
  /\ hreq[p].route = "get"
  /\ \/ /\ hreq[p].method # "GET"
        /\ HttpError(p, LocalErr("Method not allowed"), StatusMethodNotAllowed)
     \/ /\ hreq[p].method = "GET"
        /\ hreq[p].id = EmptyString
        /\ HttpError(p, LocalErr("id parameter required"), StatusBadRequest)
  /\ UNCHANGED <<users, mu, issued, last, created, ncalls>>

\* variant: the id parameter is not checked before the call
GetHandlerCallAnyId(p) ==
  /\ gw[p] = "handle"
  /\ hreq[p].route = "get"
  /\ hreq[p].method = "GET"
  /\ Invoke(p, GetUserRequest(hreq[p].id))
  /\ gw' = [gw EXCEPT ![p] = "await"]
  /\ UNCHANGED <<users, issued, last, created, ncalls, hreq, out, gwUsers>>

GetHandlerCall(p) ==
  /\ gw[p] = "handle"
  /\ hreq[p].route = "get"
  /\ hreq[p].method = "GET"
  /\ hreq[p].id # EmptyString
  /\ Invoke(p, GetUserRequest(hreq[p].id))
  /\ gw' = [gw EXCEPT ![p] = "await"]
  /\ UNCHANGED <<users, issued, last, created, ncalls, hreq, out, gwUsers>>

\* err != nil
GetHandlerFail(p) ==
  /\ gw[p] = "await"
  /\ hreq[p].route = "get"
  /\ \E e \in UnaryErrs(p) : HttpError(p, e, StatusNotFound)
  /\ UNCHANGED <<users, mu, issued, last, created, ncalls>>

GetHandlerOK(p) ==
  /\ gw[p] = "await"
  /\ hreq[p].route = "get"
  /\ pc[p] = "done"
  /\ res[p].err = NoErr
  /\ HttpJSON(p, res[p].resp[1])
  /\ UNCHANGED <<users, mu, issued, last, created, ncalls>>

\* ------------------------------------------------ ListUsersHandler
ListHandlerReject(p) ==
  /\ gw[p] = "handle"
  /\ hreq[p].route = "list"
  /\ hreq[p].method # "GET"
  /\ HttpError(p, LocalErr("Method not allowed"), StatusMethodNotAllowed)
  /\ UNCHANGED <<users, mu, issued, last, created, ncalls>>

\* variant: the request carries no limit
ListHandlerCallNoLimit(p) ==
  /\ gw[p] = "handle"
  /\ hreq[p].route = "list"
  /\ hreq[p].method = "GET"
  /\ Invoke(p, ListUsersRequest(0))
  /\ gw' = [gw EXCEPT ![p] = "drain"]
  /\ gwUsers' = [gwUsers EXCEPT ![p] = <<>>]
  /\ UNCHANGED <<users, issued, last, created, ncalls, hreq, out>>

\* stream, err := gw.userClient.ListUsers(ctx, {Limit: 10}); err == nil
ListHandlerCall(p) ==
  /\ gw[p] = "handle"
  /\ hreq[p].route = "list"
  /\ hreq[p].method = "GET"
  /\ Invoke(p, ListUsersRequest(GatewayLimit))
  /\ gw' = [gw EXCEPT ![p] = "drain"]
  /\ gwUsers' = [gwUsers EXCEPT ![p] = <<>>]
  /\ UNCHANGED <<users, issued, last, created, ncalls, hreq, out>>

\* stream, err := gw.userClient.ListUsers(...); err != nil
ListHandlerCallFail(p) ==
  /\ gw[p] = "handle"
  /\ hreq[p].route = "list"
  /\ hreq[p].method = "GET"
  /\ \E e \in TransportErrs : HttpError(p, e, StatusInternalServerError)
  /\ UNCHANGED <<users, mu, issued, last, created, ncalls>>

\* variant: the record received is put in front of the earlier ones
ListHandlerRecvPrepend(p) ==
  /\ gw[p] = "drain"
  /\ Len(gwUsers[p]) < Len(sent[p])
  /\ gwUsers' = [gwUsers EXCEPT ![p] = <<sent[p][Len(@) + 1].User>> \o @]
  /\ UNCHANGED <<users, mu, issued, pc, req, user, count, sent, res,
                 last, created, seen, ncalls, gw, hreq, out>>

\* resp, err := stream.Recv(); err == nil: users = append(users, resp.User)
ListHandlerRecv(p) ==
  /\ gw[p] = "drain"
  /\ Len(gwUsers[p]) < Len(sent[p])
  /\ gwUsers' = [gwUsers EXCEPT ![p] = Append(@, sent[p][Len(@) + 1].User)]
  /\ UNCHANGED <<users, mu, issued, pc, req, user, count, sent, res,
                 last, created, seen, ncalls, gw, hreq, out>>

\* variant: a failed receive leaves the loop as io.EOF does
ListHandlerRecvErrBreak(p) ==
  /\ gw[p] = "drain"
  /\ RecvErrs(p) # {}
  /\ HttpJSON(p, [users |-> EncodeSlice(gwUsers[p]), count |-> Len(gwUsers[p])])
  /\ UNCHANGED <<users, mu, issued, last, created, ncalls>>

\* err != nil && err != io.EOF
ListHandlerRecvErr(p) ==
  /\ gw[p] = "drain"
  /\ \E e \in RecvErrs(p) : HttpError(p, e, StatusInternalServerError)
  /\ UNCHANGED <<users, mu, issued, last, created, ncalls>>

\* err == io.EOF: break; encode {"users": users, "count": len(users)}
ListHandlerEOF(p) ==
  /\ gw[p] = "drain"
  /\ pc[p] = "done"
  /\ res[p].err = NoErr
  /\ Len(gwUsers[p]) = Len(sent[p])
  /\ HttpJSON(p, [users |-> EncodeSlice(gwUsers[p]), count |-> Len(gwUsers[p])])
  /\ UNCHANGED <<users, mu, issued, last, created, ncalls>>

\* a call the gateway gave up has returned in the service
HttpDone(p) ==
  /\ gw[p] = "gone"
  /\ pc[p] = "done"
  /\ gw' = [gw EXCEPT ![p] = "none"]
  /\ pc' = [pc EXCEPT ![p] = "idle"]
  /\ UNCHANGED <<users, mu, issued, req, user, count, sent, res,
                 last, created, seen, ncalls, hreq, out, gwUsers>>

Handle(p) ==
  \/ CreateHandlerReject(p) \/ CreateHandlerCall(p) \/ CreateHandlerFail(p)
  \/ CreateHandlerOK(p)
  \/ GetHandlerReject(p) \/ GetHandlerCall(p) \/ GetHandlerFail(p)
  \/ GetHandlerOK(p)
  \/ ListHandlerReject(p) \/ ListHandlerCall(p) \/ ListHandlerCallFail(p)
  \/ ListHandlerRecv(p) \/ ListHandlerRecvErr(p) \/ ListHandlerEOF(p)

\* ---------------------------------------------------------------- specification
Serve(p) ==
  \/ CreateLock(p) \/ CreateAcquire(p) \/ CreateReject(p) \/ CreateBuild(p)
  \/ CreateStore(p) \/ CreateReturn(p)
  \/ GetWake(p) \/ GetFound(p) \/ GetNotFound(p)
  \/ ListWake(p) \/ ListSend(p) \/ ListSendFail(p)
  \/ ListReturn(p)

Next ==
  \/ \E p \in Procs : BeginCall(p)
  \/ \E p \in Procs : Serve(p)

Spec == Init /\ [][Next]_vars

\* goroutines are interchangeable: a call runs on the first one that is free
FairBegin(p) ==
  /\ \A q \in Procs : q < p => pc[q] # "idle"
  /\ BeginCall(p)

FairNext ==
  \/ \E p \in Procs : FairBegin(p)
  \/ \E p \in Procs : Serve(p)

\* the goroutine of every call is scheduled again and again; a stream.Send
\* it is in returns, with or without an error
FairSpec == Init /\ [][FairNext]_vars /\ \A p \in Procs : WF_vars(Serve(p))

\* the service behind the gateway: every call comes from an HTTP request
GwNext ==
  \/ \E p \in HttpProcs \cap Procs : HttpRequest(p)
  \/ \E p \in Procs : Handle(p)
  \/ \E p \in Procs : Serve(p)
  \/ \E p \in Procs : HttpDone(p)

GwSpec == Init /\ [][GwNext]_vars

\* the gateway answering list requests over a store that earlier CreateUser
\* calls have filled: k records, created one after the other
StoredUser(n) ==
  NewUser(n, CreateUserRequest([name |-> "Ann", email |-> "ann@x.com", age |-> 30]), 0)
Stored(k) == [id \in { UuidString(n) : n \in 1..k } |-> StoredUser(id[2])]

ListInit ==
  /\ \E k \in 0..MaxStored :
       /\ users = Stored(k)
       /\ issued = 1..k
       /\ created = [i \in 1..k |->
                       [req |-> CreateUserRequest([name |-> "Ann",
                                   email |-> "ann@x.com", age |-> 30]),
                        user |-> StoredUser(i)]]
  /\ mu = [w |-> None, locked |-> FALSE, r |-> {}]
  /\ pc = [p \in Procs |-> "idle"]
  /\ req = [p \in Procs |-> NoReq]
  /\ user = [p \in Procs |-> <<>>]
  /\ count = [p \in Procs |-> 0]
  /\ sent = [p \in Procs |-> <<>>]
  /\ res = [p \in Procs |-> NoRes]
  /\ last = NoLast
  /\ seen = [p \in Procs |-> 0]
  /\ ncalls = 0
  /\ gw = [p \in Procs |-> "none"]
  /\ hreq = [p \in Procs |-> NoHttp]
  /\ out = NoOut
  /\ gwUsers = [p \in Procs |-> <<>>]

\* an HTTP request on the list route reaches ListUsersHandler; the client
\* sends it when its previous request is over, and has no response to it yet
ListRequest(p) ==
  /\ \A q \in Procs : gw[q] = "none"
  /\ pc[p] = "idle"
  /\ ncalls < MaxHttpCalls
  /\ \E m \in {"GET", "POST"} :
       hreq' = [hreq EXCEPT ![p] = [NoHttp EXCEPT !.route = "list", !.method = m]]
  /\ gw' = [gw EXCEPT ![p] = "handle"]
  /\ out' = NoOut
  /\ ncalls' = ncalls + 1
  /\ UNCHANGED <<users, mu, issued, pc, req, user, count, sent, res,
                 last, created, seen, gwUsers>>

ListNext ==
  \/ \E p \in Procs : ListRequest(p)
  \/ \E p \in Procs :
       \/ ListHandlerReject(p) \/ ListHandlerCall(p) \/ ListHandlerCallFail(p)
       \/ ListHandlerRecv(p) \/ ListHandlerRecvErr(p) \/ ListHandlerEOF(p)
  \/ \E p \in Procs : ListSend(p) \/ ListSendFail(p) \/ ListReturn(p)
  \/ \E p \in Procs : HttpDone(p)

ListSpec == ListInit /\ [][ListNext]_vars

TypeOK ==
  /\ mu.w \in Procs \cup {None}
  /\ mu.r \subseteq Procs
  /\ ncalls \in Nat

\* ---------------------------------------------------------------- properties
Range(q) == { q[i] : i \in 1..Len(q) }
Distinct(q) == \A i, j \in 1..Len(q) : q[i] = q[j] => i = j

\* the request carries an empty name or an empty email
Blank(r) == r.name = "" \/ r.email = ""
\* the call that returned last
LastWas(op) == last.req.op = op
LastOK == last.res.err = NoErr
\* the record a successful CreateUser or GetUser returned
LastUser == last.res.resp[1].User[1]
\* identifiers of the records a ListUsers call has emitted
IdSeq(q) == [i \in 1..Len(q) |-> q[i].User.Id]
\* identifiers returned by CreateUser so far, in order of return
CreatedIds == [i \in 1..Len(created) |-> created[i].user.Id]
\* positions between the return of Lock/RLock and the deferred unlock
Exclusive(p) == pc[p] \in {"cValidate", "cStore", "cReturn"}
Shared(p) == pc[p] \in {"gLookup", "lLoop"}

\* C1: every CreateUser with non-empty name and email succeeds, the
\* identifiers returned are pairwise distinct, and a ListUsers(limit=0) during
\* which no CreateUser returned emits exactly one record per created
\* identifier: none lost, none duplicated.
C1_ConcurrentCreates ==
  /\ (LastWas("create") /\ ~Blank(last.req)) =>
        /\ LastOK
        /\ last.res.resp[1].Success
  /\ Distinct(CreatedIds)
  /\ (LastWas("list") /\ last.req.limit = 0 /\ LastOK
        /\ last.seen = Len(created)) =>
          /\ Len(last.sent) = Len(created)
          /\ Range(IdSeq(last.sent)) = Range(CreatedIds)
          /\ Distinct(IdSeq(last.sent))

C1_Witness ==
  /\ LastWas("list") /\ last.req.limit = 0 /\ LastOK
  /\ last.seen = Len(created)
  /\ Len(created) = 2
  /\ Len(last.sent) = 2

\* C2: at most one CreateUser has exclusive access; no GetUser or ListUsers
\* has shared access while a CreateUser has exclusive access; the map changes
\* only in the store step of the call that has exclusive access; and whenever
\* a reader has shared access every stored record is whole.
Whole(k) ==
  /\ users[k].Id = k /\ k # EmptyString
  /\ users[k].Name # "" /\ users[k].Email # ""
  /\ users[k].CreatedAt # <<>>

C2_LockState ==
  /\ Cardinality({ p \in Procs : Exclusive(p) }) <= 1
  /\ \A p, q \in Procs : Exclusive(p) => ~Shared(q)
  /\ \A p \in Procs : Exclusive(p) => (mu.w = p /\ mu.locked /\ mu.r = {})
  /\ \A q \in Procs : Shared(q) => \A k \in DOMAIN users : Whole(k)

C2_WriteStep ==
  users' # users =>
    \E p \in Procs : Exclusive(p) /\ pc[p] = "cStore" /\ pc'[p] = "cReturn"

C2_ExclusiveWrites == []C2_LockState /\ [][C2_WriteStep]_vars

C2_Witness ==
  \E p, q, r \in Procs :
    /\ pc[p] = "cReturn"
    /\ pc[q] = "cLock"
    /\ pc[r] \in {"gWait", "lWait"}

\* C3: a successful CreateUser returns a record with the request's name,
\* email and age, a non-empty identifier and a non-empty creation timestamp;
\* a GetUser with that identifier that began after the CreateUser returned
\* yields a record with the same name, email and age; and no identifier is
\* returned by two CreateUser calls.
C3_CreateThenGet ==
  /\ (LastWas("create") /\ LastOK) =>
        /\ LastUser.Name = last.req.name
        /\ LastUser.Email = last.req.email
        /\ LastUser.Age = last.req.age
        /\ LastUser.Id # EmptyString
        /\ LastUser.CreatedAt # <<>>
  /\ LastWas("get") =>
        \A i \in 1..last.seen :
          created[i].user.Id = last.req.id =>
             /\ LastOK
             /\ LastUser.Id = last.req.id
             /\ LastUser.Name = created[i].req.name
             /\ LastUser.Email = created[i].req.email
             /\ LastUser.Age = created[i].req.age
             /\ LastUser.CreatedAt = created[i].user.CreatedAt
  /\ Distinct(CreatedIds)

C3_Witness ==
  /\ LastWas("get") /\ LastOK
  /\ \E i \in 1..last.seen : created[i].user.Id = last.req.id
  /\ LastUser.Age = 30
  /\ Len(created) = 2

\* C4: a CreateUser with an empty name or an empty email returns the
\* validation error, and no step of that call changes the store.
C4_Failed ==
  (LastWas("create") /\ Blank(last.req)) =>
     /\ last.res.err = ErrValidation
     /\ ~last.res.resp[1].Success

C4_Step ==
  \A p \in Procs :
    (req[p].op = "create" /\ Blank(req[p]) /\ pc'[p] # pc[p]) => users' = users

C4_RejectLeavesStore == []C4_Failed /\ [][C4_Step]_vars

C4_Witness ==
  /\ LastWas("create") /\ last.req.email = "" /\ last.req.name # ""
  /\ last.res.err = ErrValidation
  /\ DOMAIN users # {}

\* C5: a GetUser whose identifier no CreateUser has returned fails with the
\* not-found error, and a failed GetUser returns no record at all.
C5_UnknownIdNotFound ==
  LastWas("get") =>
     /\ last.req.id \notin Range(CreatedIds) =>
          last.res.err = ErrNotFound(last.req.id)
     /\ ~LastOK => last.res.resp = <<>>

C5_Witness ==
  /\ LastWas("get") /\ last.res.err = ErrNotFound(last.req.id)
  /\ last.res.resp = <<>>
  /\ last.req.id # UnknownId
  /\ DOMAIN users # {}

\* C6: a GetUser that began after a CreateUser returned finds that record,
\* and a ListUsers(limit=0) that began after it and ended normally has
\* emitted that record.
CreatedBeforeLast == { created[i].user.Id : i \in 1..last.seen }

C6_VisibleAfterReturn ==
  /\ (LastWas("get") /\ last.req.id \in CreatedBeforeLast) =>
        /\ LastOK
        /\ LastUser.Id = last.req.id
  /\ (LastWas("list") /\ last.req.limit = 0 /\ LastOK) =>
        CreatedBeforeLast \subseteq Range(IdSeq(last.sent))

C6_Witness ==
  /\ LastWas("list") /\ last.req.limit = 0 /\ LastOK
  /\ last.seen = 1
  /\ Len(last.sent) = 2

\* C7: every record a ListUsers call has emitted is a stored record and none
\* is emitted twice; with limit N > 0 at most N records are emitted; and a
\* ListUsers(limit=0) that ends normally has emitted every stored record.
EmittedFromStore(q, limit) ==
  /\ \A i \in 1..Len(q) :
       /\ q[i].User.Id \in DOMAIN users
       /\ users[q[i].User.Id] = q[i].User
  /\ Distinct(IdSeq(q))
  /\ limit > 0 => Len(q) <= limit

C7_Emitted ==
  /\ \A p \in Procs : req[p].op = "list" => EmittedFromStore(sent[p], req[p].limit)
  /\ LastWas("list") => EmittedFromStore(last.sent, last.req.limit)

C7_ReturnStep ==
  \A p \in Procs :
    (pc[p] = "lLoop" /\ pc'[p] = "idle" /\ last'.res.err = NoErr
       /\ req[p].limit = 0) => Range(IdSeq(last'.sent)) = DOMAIN users

C7_ListLimit == []C7_Emitted /\ [][C7_ReturnStep]_vars

C7_Witness ==
  /\ LastWas("list") /\ LastOK
  /\ last.req.limit = 1
  /\ Len(last.sent) = 1
  /\ Cardinality(DOMAIN users) = 2

\* C8: on the lookup route a not-found failure of the remote call is answered
\* with 404 and every other failure of the remote call with 500; on the
\* create and list routes every failure of the remote call is answered
\* with 500.
RemoteFailure == out.err.code \notin {"OK", "local"}

C8_RemoteFailureStatus ==
  RemoteFailure =>
     IF out.hreq.route = "get" /\ out.err = GrpcStatus(ErrNotFound(out.hreq.id))
       THEN out.status = StatusNotFound
       ELSE out.status = StatusInternalServerError

\* C9: on every route a remote call whose deadline elapses ends the HTTP
\* request with status 500.
C9_DeadlineIs500 ==
  out.err.code = "DeadlineExceeded" => out.status = StatusInternalServerError

\* C10: a POST /users/create whose body decodes but whose name or email is
\* empty, and which the service turns down for that, is answered with 400.
C10_ValidationIs400 ==
  (out.hreq.route = "create" /\ out.hreq.method = "POST" /\ out.hreq.bodyOk
     /\ Blank(out.hreq) /\ out.err = GrpcStatus(ErrValidation)) =>
     out.status = StatusBadRequest

\* a request its handler turns down before any remote call
WrongMethod(h) ==
  \/ h.route = "create" /\ h.method # "POST"
  \/ h.route \in {"get", "list"} /\ h.method # "GET"
LocallyRejected(h) ==
  \/ WrongMethod(h)
  \/ h.route = "create" /\ ~h.bodyOk
  \/ h.route = "get" /\ h.id = EmptyString
\* a handler that has not answered yet
Active(p) == gw[p] \in {"handle", "await", "drain"}

\* C11: a request with the wrong method for its route is answered with 405,
\* a create whose body does not decode with 400 and a get without an id with
\* 400; the handler of such a request never issues a remote call, and its
\* steps change neither the store nor any call of the service.
C11_NoCall ==
  \A p \in Procs :
    (Active(p) /\ LocallyRejected(hreq[p])) =>
       /\ gw[p] = "handle"
       /\ pc[p] = "idle"
       /\ req[p] = NoReq

C11_Answer ==
  (out.hreq.route # "none" /\ LocallyRejected(out.hreq)) =>
     /\ out.err.code = "local"
     /\ out.status = IF WrongMethod(out.hreq) THEN 405 ELSE 400

C11_Step ==
  \A p \in Procs :
    (Active(p) /\ LocallyRejected(hreq[p]) /\ gw'[p] # gw[p]) =>
       /\ users' = users
       /\ pc' = pc
       /\ req' = req
       /\ mu' = mu
       /\ out'.hreq = hreq[p]
       /\ gw'[p] = "none"

C11_LocalRejectNoCall == [](C11_NoCall /\ C11_Answer) /\ [][C11_Step]_vars

C11_Witness ==
  /\ out.hreq.route = "get" /\ out.hreq.method = "GET"
  /\ out.hreq.id = EmptyString
  /\ out.status = 400
  /\ DOMAIN users # {}

\* the records a client reads from the users field of a list response; a
\* null decodes into a slice without elements
UsersOf(doc) == IF doc.users = JSONNull THEN <<>> ELSE doc.users[2]
\* the records of the messages of a stream
Records(q) == [i \in 1..Len(q) |-> q[i].User]

\* C12: when ListUsersHandler answers 200, the users field of the document
\* holds the records of the messages the service sent on that stream, in the
\* order they were sent, and the count field is its length.
C12_Step ==
  \A p \in Procs :
    (gw[p] = "drain" /\ gw'[p] # "drain" /\ out'.status = 200) =>
       /\ out'.body[1] = "json"
       /\ UsersOf(out'.body[2]) = Records(sent[p])
       /\ out'.body[2].count = Len(UsersOf(out'.body[2]))

C13_ErrorBody ==
  (out.hreq.route = "list" /\ out.status # 200 /\ out.hreq.method = "GET") =>
     /\ out.status = 500
     /\ out.err.code \notin {"OK", "local"}
     /\ out.body = <<"text", out.err.msg>>

C13_Step ==
  \A p \in Procs :
    (gw[p] = "drain" /\ gw'[p] # "drain") =>
       /\ out'.hreq = hreq[p]
       /\ out'.got = Len(gwUsers[p])
       /\ out'.status = 200 =>
            /\ pc[p] = "done"
            /\ res[p].err = NoErr
            /\ Len(gwUsers[p]) = Len(sent[p])
       /\ out'.status = 200 \/ out'.status = 500

C13_NoPartialList == []C13_ErrorBody /\ [][C13_Step]_vars

C13_Witness ==
  /\ out.hreq.route = "list" /\ out.status = 500
  /\ out.got = 2
  /\ out.body[1] = "text"
  /\ Cardinality(DOMAIN users) = 3

\* C14: a handler ends in the step in which it writes its response, so it
\* writes one response and nothing after it; the response is 200 with a JSON
\* body when the method, the input and the remote call (for a list, every
\* receive) were in order, and otherwise 400, 404, 405 or 500 with a text.
C14_Step ==
  /\ \A p \in Procs :
       (Active(p) /\ ~(gw'[p] \in {"handle", "await", "drain"})) =>
          /\ out'.hreq = hreq[p]
          /\ out'.status = 200 <=>
               /\ ~LocallyRejected(hreq[p])
               /\ pc[p] = "done"
               /\ res[p].err = NoErr
               /\ out'.err.code = "OK"
          /\ out'.status = 200 => out'.body[1] = "json"
          /\ out'.status # 200 =>
               /\ out'.status \in {400, 404, 405, 500}
               /\ out'.body[1] = "text"
  /\ out' # out =>
       /\ Cardinality({ p \in Procs : Active(p) /\ gw'[p] \in {"none", "gone"} }) = 1
       /\ \A p \in Procs : (Active(p) /\ gw'[p] = gw[p]) => hreq'[p] = hreq[p]

C14_OneResponse == [][C14_Step]_vars

C14_Witness ==
  /\ out.hreq.route = "get" /\ out.status = 200
  /\ out.body[1] = "json"
  /\ out.body[2].User[1].Id \in DOMAIN users
  /\ \A p \in Procs : gw[p] = "none"

\* C15: the store is empty at start; no step removes an identifier or changes
\* the record stored under it; a step that changes the store is the store
\* step of a CreateUser with non-empty name and email and adds exactly the
\* record of that call; and every stored record belongs to a CreateUser that
\* has returned it or is about to.
C15_Owned ==
  DOMAIN users =
    Range(CreatedIds) \cup { user[p][1].Id : p \in { q \in Procs : pc[q] = "cReturn" } }

C15_Step ==
  /\ \A k \in DOMAIN users : k \in DOMAIN users' /\ users'[k] = users[k]
  /\ users' # users =>
       \E p \in Procs :
         /\ pc[p] = "cStore" /\ pc'[p] = "cReturn"
         /\ ~Blank(req[p])
         /\ DOMAIN users' = DOMAIN users \cup {user[p][1].Id}
         /\ users'[user[p][1].Id] = user[p][1]

C15_StoreGrowsOnly == users = <<>> /\ []C15_Owned /\ [][C15_Step]_vars

C15_Witness ==
  /\ Cardinality(DOMAIN users) = 2
  /\ Len(created) = 1
  /\ \E p \in Procs : pc[p] = "cReturn"

\* C16: the error of a CreateUser that failed validation and the error of a
\* GetUser that found no record reach the gateway with different status
\* codes, and neither with the code of a failure of the call itself.
C16_DistinctCategories ==
  \A p, q \in Procs :
    (/\ gw[p] = "await" /\ pc[p] = "done" /\ res[p].err = ErrValidation
     /\ gw[q] = "await" /\ pc[q] = "done" /\ res[q].err = ErrNotFound(req[q].id)) =>
       \A e \in UnaryErrs(p) \ TransportErrs, f \in UnaryErrs(q) \ TransportErrs :
         /\ e.code # f.code
         /\ \A t \in TransportErrs : e.code # t.code /\ f.code # t.code

\* C17: over a store of k records that no CreateUser is changing, a GET
\* /users/list whose remote call does not fail is answered with 200, count =
\* min(k, 10) and that many records, each a stored record and no two the same.
Min(a, b) == IF a <= b THEN a ELSE b

C18_DualSignal ==
  LastWas("create") =>
     /\ Blank(last.req) =>
          /\ ~LastOK
          /\ ~last.res.resp[1].Success
          /\ last.res.resp[1].Message # ""
          /\ last.res.resp[1].User = <<>>
     /\ ~Blank(last.req) =>
          /\ LastOK
          /\ last.res.resp[1].Success
          /\ last.res.resp[1].Message = "User created successfully"
          /\ Len(last.res.resp[1].User) = 1
          /\ LastUser.Id \in DOMAIN users
          /\ users[LastUser.Id] = LastUser
     /\ last.res.resp[1].Success <=> LastOK

C18_Witness ==
  /\ LastWas("create") /\ last.req.name = ""
  /\ ~last.res.resp[1].Success
  /\ last.res.err # NoErr
  /\ Len(created) = 1

\* C19: a ListUsers call whose Send fails returns in that step with the
\* error: the messages sent are those sent before, as many as count, fewer
\* than the call would have sent; and a call returns nil only when the range
\* is exhausted or the limit reached.
C19_Step ==
  \A p \in Procs :
    (pc[p] = "lLoop" /\ pc'[p] = "idle") =>
       /\ last'.sent = sent[p]
       /\ Len(sent[p]) = count[p]
       /\ last'.res.err = NoErr <=>
            \/ Visited(p) = DOMAIN users
            \/ req[p].limit > 0 /\ Len(sent[p]) >= req[p].limit
       /\ last'.res.err # NoErr => last'.res.err = ErrSend

C19_SendFailureStops == [][C19_Step]_vars

C19_Witness ==
  /\ LastWas("list") /\ last.res.err = ErrSend
  /\ last.req.limit = 0
  /\ Len(last.sent) = 1
  /\ Cardinality(DOMAIN users) = 2

\* C20: while a ListUsers call is in its loop no CreateUser has exclusive
\* access and no step changes the store, so every record the call has emitted
\* is a record of the store as it was when RLock returned; a CreateUser that
\* called Lock meanwhile waits until the readers have left.
C20_Enumerating ==
  \A p \in Procs :
    pc[p] = "lLoop" =>
       /\ p \in mu.r
       /\ ~mu.locked
       /\ \A q \in Procs : ~Exclusive(q)
       /\ \A i \in 1..Len(sent[p]) :
            /\ sent[p][i].User.Id \in DOMAIN users
            /\ users[sent[p][i].User.Id] = sent[p][i].User

C20_Step ==
  (\E p \in Procs : pc[p] = "lLoop") => users' = users

C20_Snapshot == []C20_Enumerating /\ [][C20_Step]_vars

C20_Witness ==
  \E p, q \in Procs :
    /\ pc[p] = "lLoop" /\ Len(sent[p]) = 1
    /\ pc[q] = "cWait" /\ mu.w = q
    /\ Cardinality(DOMAIN users) = 1

\* a reader that called RLock and has not been let in
ReaderWaits(p) == pc[p] \in {"gWait", "lWait"} /\ p \notin mu.r
\* a GetUser or ListUsers arrives at its RLock in this step
Arrives(p) ==
  /\ pc[p] = "idle"
  /\ pc'[p] \in {"gLookup", "lLoop", "gWait", "lWait"}

\* C21 as stated: while no CreateUser holds exclusive access and readers hold
\* shared access, no GetUser or ListUsers waits for shared access, also not
\* when a CreateUser is waiting for the lock.
C21_ReadersWaitOnlyForHolder ==
  \A p \in Procs :
    (ReaderWaits(p) /\ mu.r # {}) => \E q \in Procs : Exclusive(q)

\* C21, amended: when no CreateUser holds exclusive access or has called Lock
\* and waits for the readers to leave, an arriving GetUser or ListUsers gets
\* shared access in the step in which it arrives, whatever readers are inside;
\* when a CreateUser holds the lock or waits for the readers, the arriving
\* reader waits, and a reader waits only for such a CreateUser.
C21_WaitsForWriter ==
  \A p \in Procs : ReaderWaits(p) => mu.w # None

C21_Step ==
  \A p \in Procs :
    Arrives(p) =>
       IF mu.w = None
         THEN /\ pc'[p] \in {"gLookup", "lLoop"}
              /\ mu'.r = mu.r \cup {p}
         ELSE /\ pc'[p] \in {"gWait", "lWait"}
              /\ mu'.r = mu.r

C21_ReadersShare == []C21_WaitsForWriter /\ [][C21_Step]_vars

C21_Witness ==
  \E p, q \in Procs :
    /\ pc[p] = "lLoop" /\ Len(sent[p]) = 1
    /\ pc[q] = "gLookup" /\ seen[q] = 1
    /\ {p, q} \subseteq mu.r
    /\ mu.w = None

\* a call is in flight on goroutine p
InFlight(p) == pc[p] # "idle"

\* C22: the lock is held by calls in flight only: its writer is a CreateUser
\* between Lock and its return, its readers are GetUser and ListUsers calls
\* between RLock and their return, so with no call in flight the lock is free;
\* and with every goroutine scheduled fairly and every Send returning, every
\* call that began returns: a run begins finitely many calls, so from some
\* point on no call is in flight.
C22_Held ==
  /\ mu.w # None => pc[mu.w] \in {"cWait", "cValidate", "cStore", "cReturn"}
  /\ mu.locked <=> \E p \in Procs : Exclusive(p)
  /\ \A p \in mu.r : pc[p] \in {"gWait", "gLookup", "lWait", "lLoop"}
  /\ (\A p \in Procs : ~InFlight(p)) =>
        mu = [w |-> None, locked |-> FALSE, r |-> {}]

C22_Returns == <>[](\A p \in Procs : ~InFlight(p))

C22_LockReleased == []C22_Held /\ C22_Returns

C22_Witness ==
  /\ ncalls = MaxCalls
  /\ \A p \in Procs : ~InFlight(p)
  /\ LastWas("list") /\ last.res.err = ErrSend
  /\ Len(created) = 1
  /\ mu = [w |-> None, locked |-> FALSE, r |-> {}]

====
